---------------------------- MODULE Spec2Model ----------------------------
(***************************************************************************)
(* Model of build_model.py: the decoders parse_field, get_cast and         *)
(* get_crew_director, the normaliser clean_token_list, and main, the       *)
(* single forward pass from the two CSV tables to the two pickled          *)
(* artifacts.                                                              *)
(*                                                                         *)
(* Text is a sequence of one-character strings.  A Python object is a      *)
(* record [t, s, n, items]: t is its type, s the characters of a str, n    *)
(* the number of an int or bool, items the elements of a list or tuple or  *)
(* the entries (objects of type "pair") of a dict.                         *)
(***************************************************************************)
EXTENDS Integers, Sequences, FiniteSets, TLC

(***************************************************************************)
(* Characters and text                                                     *)
(***************************************************************************)
SQ == "'"
DQ == "\""
SP == " "
TAB == "\t"

UpperCase == <<"A","B","C","D","E","F","G","H","I","J","K","L","M",
               "N","O","P","Q","R","S","T","U","V","W","X","Y","Z">>
LowerCase == <<"a","b","c","d","e","f","g","h","i","j","k","l","m",
               "n","o","p","q","r","s","t","u","v","w","x","y","z">>
Digits == <<"0","1","2","3","4","5","6","7","8","9">>

Range(f) == {f[i] : i \in DOMAIN f}
Letters == Range(UpperCase) \cup Range(LowerCase) \cup {"_"}
DigitSet == Range(Digits)
Quotes == {SQ, DQ}
Puncts == {"[", "]", "{", "}", ":", ","}

SetMin(S) == CHOOSE x \in S : \A y \in S : x <= y

\* str.lower() on one character
LowerChar(c) ==
    IF \E i \in DOMAIN UpperCase : UpperCase[i] = c
    THEN LowerCase[CHOOSE i \in DOMAIN UpperCase : UpperCase[i] = c]
    ELSE c

\* str.lower()
StrLower(s) == [i \in DOMAIN s |-> LowerChar(s[i])]

\* s.replace(old, '') for a one-character old
StrRemove(s, old) ==
    LET Other(c) == c # old
    IN  SelectSeq(s, Other)

\* the number of consecutive double quotes of s that end at position i
QuoteRun(s, i) == Cardinality({j \in 1..i : \A m \in j..i : s[m] = DQ})

\* x.replace('""', '"'): leftmost non-overlapping pairs of double quotes.  In
\* a run of double quotes the pairs are (1, 2), (3, 4), ...: each pair leaves
\* one quote, and so does the last quote of a run of odd length, so the
\* quotes at the odd places of a run are the ones that stay.
CollapseDoubledQuotes(s) ==
    LET Stays(i) == s[i] # DQ \/ QuoteRun(s, i) % 2 = 1
        kept == SelectSeq([i \in 1..Len(s) |-> i], Stays)
    IN  [k \in DOMAIN kept |-> s[kept[k]]]

\* sep.join(parts)
RECURSIVE StrJoin(_, _)
StrJoin(sep, parts) ==
    IF parts = <<>> THEN <<>>
    ELSE IF Len(parts) = 1 THEN parts[1]
    ELSE parts[1] \o sep \o StrJoin(sep, Tail(parts))

RECURSIVE SeqFilterNonEmpty(_)
SeqFilterNonEmpty(parts) ==
    IF parts = <<>> THEN <<>>
    ELSE IF Head(parts) = <<>> THEN SeqFilterNonEmpty(Tail(parts))
    ELSE <<Head(parts)>> \o SeqFilterNonEmpty(Tail(parts))

(***************************************************************************)
(* Python objects                                                          *)
(***************************************************************************)
Obj(t, s, n, items) == [t |-> t, s |-> s, n |-> n, items |-> items]
PyNaN == Obj("nan", <<>>, 0, <<>>)
PyNone == Obj("none", <<>>, 0, <<>>)
PyStr(s) == Obj("str", s, 0, <<>>)
PyInt(n) == Obj("int", <<>>, n, <<>>)
PyBool(b) == Obj("bool", <<>>, IF b THEN 1 ELSE 0, <<>>)
PyList(items) == Obj("list", <<>>, 0, items)
PyTuple(items) == Obj("tuple", <<>>, 0, items)
PyDict(entries) == Obj("dict", <<>>, 0, entries)
PyPair(k, v) == Obj("pair", <<>>, 0, <<k, v>>)

\* pd.isna on a scalar cell: NaN (an empty CSV cell) or None
IsNa(x) == x.t \in {"nan", "none"}

\* bool(x)
Truthy(x) ==
    CASE x.t = "str" -> x.s # <<>>
      [] x.t \in {"int", "bool"} -> x.n # 0
      [] x.t = "none" -> FALSE
      [] x.t = "nan" -> TRUE
      [] OTHER -> x.items # <<>>

\* a or b
PyOr(a, b) == IF Truthy(a) THEN a ELSE b

Hashable(x) == x.t \notin {"list", "dict"}

\* key equality of dict: equal objects, and 1 == True, 0 == False
KeyEq(a, b) ==
    \/ a = b
    \/ a.t \in {"int", "bool"} /\ b.t \in {"int", "bool"} /\ a.n = b.n

\* d[k] = v on the entries of a dict under construction
DictStore(entries, k, v) ==
    IF \E i \in DOMAIN entries : KeyEq(entries[i].items[1], k)
    THEN LET i == CHOOSE j \in DOMAIN entries : KeyEq(entries[j].items[1], k)
         IN  [entries EXCEPT ![i] = PyPair(entries[i].items[1], v)]
    ELSE Append(entries, PyPair(k, v))

\* d.get(key) for a str key: None when the key is missing
DictGet(d, key) ==
    IF \E i \in DOMAIN d.items : d.items[i].items[1] = PyStr(key)
    THEN d.items[CHOOSE i \in DOMAIN d.items : d.items[i].items[1] = PyStr(key)].items[2]
    ELSE PyNone

\* decimal digits of a natural number
RECURSIVE IntToStr(_)
IntToStr(n) ==
    IF n < 10 THEN <<Digits[n + 1]>>
    ELSE IntToStr(n \div 10) \o <<Digits[(n % 10) + 1]>>

\* repr(x), the strings quoted `quote` times with the character q; Python's
\* own repr is ReprWith(x, SQ, 1) for text holding no single quote
RECURSIVE ReprWith(_, _, _)
RECURSIVE ReprItems(_, _, _)
ReprItems(items, q, quote) ==
    IF items = <<>> THEN <<>>
    ELSE IF Len(items) = 1 THEN ReprWith(items[1], q, quote)
    ELSE ReprWith(items[1], q, quote) \o <<",", SP>> \o ReprItems(Tail(items), q, quote)

ReprWith(x, q, quote) ==
    LET qs == [i \in 1..quote |-> q]
    IN  CASE x.t = "str" ->
               IF quote = 1 /\ q = SQ /\ (\E i \in DOMAIN x.s : x.s[i] = SQ)
               THEN <<DQ>> \o x.s \o <<DQ>>
               ELSE qs \o x.s \o qs
          [] x.t = "int" -> IntToStr(x.n)
          [] x.t = "bool" -> IF x.n = 1 THEN <<"T","r","u","e">> ELSE <<"F","a","l","s","e">>
          [] x.t = "none" -> <<"N","o","n","e">>
          [] x.t = "nan" -> <<"n","a","n">>
          [] x.t = "list" -> <<"[">> \o ReprItems(x.items, q, quote) \o <<"]">>
          [] x.t = "tuple" -> <<"(">> \o ReprItems(x.items, q, quote) \o <<")">>
          [] x.t = "dict" -> <<"{">> \o ReprItems(x.items, q, quote) \o <<"}">>
          [] x.t = "pair" -> ReprWith(x.items[1], q, quote) \o <<":", SP>>
                             \o ReprWith(x.items[2], q, quote)

\* str(x): the text itself for a str, repr(x) otherwise
PyStrOf(x) == IF x.t = "str" THEN x.s ELSE ReprWith(x, SQ, 1)

(***************************************************************************)
(* ast.literal_eval, for the literals written with the characters of       *)
(* Puncts, Quotes, Letters, DigitSet, space and tab: str (single, double   *)
(* and triple quoted, adjacent literals concatenated), int, None, True,    *)
(* False, list, dict and the top-level tuple.  Any other text raises.      *)
(* Not modelled: backslash escapes, string prefixes (b'', r''), set        *)
(* displays, signs and parentheses; no input of the model uses them.       *)
(***************************************************************************)
Tok(k, s, n) == [k |-> k, s |-> s, n |-> n]
ErrTok == Tok("err", <<>>, 0)

\* the first position >= i of s whose character is not in cs, Len(s)+1 if none
RunEnd(s, i, cs) ==
    IF \E j \in i..Len(s) : s[j] \notin cs
    THEN CHOOSE j \in i..Len(s) : s[j] \notin cs /\ \A m \in i..(j - 1) : s[m] \in cs
    ELSE Len(s) + 1

RECURSIVE StrToInt(_)
StrToInt(ds) ==
    IF ds = <<>> THEN 0
    ELSE 10 * StrToInt(SubSeq(ds, 1, Len(ds) - 1))
         + ((CHOOSE i \in DOMAIN Digits : Digits[i] = ds[Len(ds)]) - 1)

TokErr(s) == [tok |-> ErrTok, next |-> Len(s) + 1]

\* a string literal whose text starts at position from; ends holds the
\* positions of the closing quotes that follow, each `width` characters
StrTokAt(s, from, close, width) ==
    [tok |-> Tok("str", SubSeq(s, from, close - 1), 0), next |-> close + width]

StrTok(s, from, ends, width) ==
    IF ends = {} THEN TokErr(s) ELSE StrTokAt(s, from, SetMin(ends), width)

\* an int literal: a nonzero number has no leading zero
NumTokOf(s, ds, n, e) ==
    IF Len(ds) > 1 /\ ds[1] = "0" /\ n # 0 THEN TokErr(s)
    ELSE [tok |-> Tok("num", ds, n), next |-> e]

NumTok(s, i, e) == NumTokOf(s, SubSeq(s, i, e - 1), StrToInt(SubSeq(s, i, e - 1)), e)

NameTok(s, i, e) == [tok |-> Tok("name", SubSeq(s, i, e - 1), 0), next |-> e]

\* the token starting at position i of s, and the position after it
NextToken(s, i) ==
    CASE s[i] \in Puncts -> [tok |-> Tok("punct", <<s[i]>>, 0), next |-> i + 1]
      [] s[i] \in Quotes ->
           IF i + 2 <= Len(s) /\ s[i + 1] = s[i] /\ s[i + 2] = s[i]
           THEN \* triple-quoted: up to the next three quotes
                StrTok(s, i + 3, {j \in (i + 3)..(Len(s) - 2) :
                                     s[j] = s[i] /\ s[j + 1] = s[i] /\ s[j + 2] = s[i]}, 3)
           ELSE StrTok(s, i + 1, {j \in (i + 1)..Len(s) : s[j] = s[i]}, 1)
      [] s[i] \in DigitSet -> NumTok(s, i, RunEnd(s, i, DigitSet))
      [] s[i] \in Letters -> NameTok(s, i, RunEnd(s, i, Letters \cup DigitSet))
      [] OTHER -> TokErr(s)

\* the first 2^m tokens of s from position i on (all of them when there are
\* fewer), each with the position after it; blanks between tokens are
\* skipped.  The tokens are read in two halves, which keeps the depth of the
\* recursion at m.
RECURSIVE TokenRun(_, _, _)
TokenRunRest(s, a, m) == a \o TokenRun(s, a[Len(a)].next, m)

TokenRun(s, i, m) ==
    CASE RunEnd(s, i, {SP, TAB}) > Len(s) -> <<>>
      [] RunEnd(s, i, {SP, TAB}) <= Len(s) /\ m = 0 ->
           <<NextToken(s, RunEnd(s, i, {SP, TAB}))>>
      [] OTHER -> TokenRunRest(s, TokenRun(s, i, m - 1), m - 1)

\* the least m with 2^m >= n
Log2Ceil(n) == CHOOSE m \in 0..n : 2^m >= n /\ \A k \in 0..(m - 1) : 2^k < n

TokensOf(run) == [k \in DOMAIN run |-> run[k].tok]

\* the tokens of s from position i on: a text holds no more tokens than
\* characters
Tokenize(s, i) == TokensOf(TokenRun(s, i, Log2Ceil(Len(s))))

IsPunct(toks, i, c) == i <= Len(toks) /\ toks[i].k = "punct" /\ toks[i].s = <<c>>

ParseFail == [ok |-> FALSE, v |-> PyNone, next |-> 0]
ParseOk(v, next) == [ok |-> TRUE, v |-> v, next |-> next]

\* adjacent string literals are one str
RECURSIVE ParseStrings(_, _, _)
ParseStrings(toks, i, acc) ==
    IF i <= Len(toks) /\ toks[i].k = "str"
    THEN ParseStrings(toks, i + 1, acc \o toks[i].s)
    ELSE ParseOk(PyStr(acc), i)

RECURSIVE ParseExpr(_, _)
RECURSIVE ParseListItems(_, _, _)
RECURSIVE ParseDictItems(_, _, _)

\* after the element e of a list display: a comma, or the closing bracket
ListAfterItem(toks, e, acc) ==
    IF ~e.ok THEN ParseFail
    ELSE IF IsPunct(toks, e.next, ",")
         THEN ParseListItems(toks, e.next + 1, Append(acc, e.v))
    ELSE IF IsPunct(toks, e.next, "]")
         THEN ParseOk(PyList(Append(acc, e.v)), e.next + 1)
    ELSE ParseFail

\* the elements of a list display after "[" or after a comma
ParseListItems(toks, i, acc) ==
    IF IsPunct(toks, i, "]") THEN ParseOk(PyList(acc), i + 1)
    ELSE ListAfterItem(toks, ParseExpr(toks, i), acc)

\* after the entry k: v of a dict display; an unhashable key raises TypeError
DictAfterValue(toks, k, v, acc) ==
    IF ~v.ok \/ ~Hashable(k.v) THEN ParseFail
    ELSE IF IsPunct(toks, v.next, ",")
         THEN ParseDictItems(toks, v.next + 1, DictStore(acc, k.v, v.v))
    ELSE IF IsPunct(toks, v.next, "}")
         THEN ParseOk(PyDict(DictStore(acc, k.v, v.v)), v.next + 1)
    ELSE ParseFail

DictAfterKey(toks, k, acc) ==
    IF ~k.ok \/ ~IsPunct(toks, k.next, ":") THEN ParseFail
    ELSE DictAfterValue(toks, k, ParseExpr(toks, k.next + 1), acc)

\* the entries of a dict display after "{" or after a comma
ParseDictItems(toks, i, acc) ==
    IF IsPunct(toks, i, "}") THEN ParseOk(PyDict(acc), i + 1)
    ELSE DictAfterKey(toks, ParseExpr(toks, i), acc)

ParseName(name, i) ==
    IF name = <<"N","o","n","e">> THEN ParseOk(PyNone, i + 1)
    ELSE IF name = <<"T","r","u","e">> THEN ParseOk(PyBool(TRUE), i + 1)
    ELSE IF name = <<"F","a","l","s","e">> THEN ParseOk(PyBool(FALSE), i + 1)
    ELSE ParseFail

ParseExpr(toks, i) ==
    IF i > Len(toks) THEN ParseFail
    ELSE CASE toks[i].k = "str" -> ParseStrings(toks, i, <<>>)
           [] toks[i].k = "num" -> ParseOk(PyInt(toks[i].n), i + 1)
           [] toks[i].k = "name" -> ParseName(toks[i].s, i)
           [] IsPunct(toks, i, "[") ->
                IF IsPunct(toks, i + 1, ",") THEN ParseFail
                ELSE ParseListItems(toks, i + 1, <<>>)
           [] IsPunct(toks, i, "{") ->
                IF IsPunct(toks, i + 1, ",") THEN ParseFail
                ELSE ParseDictItems(toks, i + 1, <<>>)
           [] OTHER -> ParseFail

\* the elements of a top-level tuple after a comma
RECURSIVE ParseTupleItems(_, _, _)
TupleAfterItem(toks, e, acc) ==
    IF ~e.ok THEN ParseFail
    ELSE IF e.next > Len(toks) THEN ParseOk(PyTuple(Append(acc, e.v)), e.next)
    ELSE IF IsPunct(toks, e.next, ",")
         THEN ParseTupleItems(toks, e.next + 1, Append(acc, e.v))
    ELSE ParseFail

ParseTupleItems(toks, i, acc) ==
    IF i > Len(toks) THEN ParseOk(PyTuple(acc), i)
    ELSE TupleAfterItem(toks, ParseExpr(toks, i), acc)

\* the whole text is one expression, or a tuple without parentheses
ParseTop(toks, e) ==
    IF ~e.ok THEN ParseFail
    ELSE IF e.next > Len(toks) THEN e
    ELSE IF IsPunct(toks, e.next, ",") THEN ParseTupleItems(toks, e.next + 1, <<e.v>>)
    ELSE ParseFail

ParseTokens(toks) ==
    IF \E i \in DOMAIN toks : toks[i].k = "err" THEN ParseFail
    ELSE ParseTop(toks, ParseExpr(toks, 1))

\* ast.literal_eval(x): [ok |-> FALSE] stands for any raised exception.  A
\* value that is no str raises ValueError.
LiteralEval(x) == IF x.t # "str" THEN ParseFail ELSE ParseTokens(Tokenize(x.s, 1))

(***************************************************************************)
(* The decoders and the normaliser.  A call returns [raised, v]: raised    *)
(* when an exception leaves the function, v the returned list otherwise.   *)
(***************************************************************************)
Return(v) == [raised |-> FALSE, v |-> v]
Raise == [raised |-> TRUE, v |-> <<>>]

KeyName == <<"n","a","m","e">>
KeyTitle == <<"t","i","t","l","e">>
KeyJob == <<"j","o","b">>
DirectorRole == <<"d","i","r","e","c","t","o","r">>

\* the try/except of parse_field and get_crew_director: literal_eval(x), and
\* on any exception literal_eval(x.replace('""', '"')); x.replace on a value
\* that is no str raises inside the inner try
DecodeRetry(x, first) ==
    IF first.ok THEN first
    ELSE IF x.t # "str" THEN ParseFail
    ELSE LiteralEval(PyStr(CollapseDoubledQuotes(x.s)))

DecodeWithFallback(x) == DecodeRetry(x, LiteralEval(x))

\* the loop of parse_field over the decoded list
FieldName(item) == PyOr(DictGet(item, KeyName), DictGet(item, KeyTitle))

RECURSIVE ParseFieldNames(_)
ParseFieldNames(items) ==
    IF items = <<>> THEN <<>>
    ELSE IF Head(items).t = "dict" /\ Truthy(FieldName(Head(items)))
         THEN <<PyStr(PyStrOf(FieldName(Head(items))))>> \o ParseFieldNames(Tail(items))
    ELSE ParseFieldNames(Tail(items))

\* parse_field without the inner try: a failed retry leaves the function
ParseFieldOfUncaught(data) ==
    IF ~data.ok THEN Raise
    ELSE IF data.v.t = "list" THEN Return(ParseFieldNames(data.v.items))
    ELSE Return(<<>>)

ParseFieldOf(data) ==
    IF ~data.ok THEN Return(<<>>)
    ELSE IF data.v.t = "list" THEN Return(ParseFieldNames(data.v.items))
    ELSE Return(<<>>)

parse_field(x) == IF IsNa(x) THEN Return(<<>>) ELSE ParseFieldOf(DecodeWithFallback(x))

\* names[-top_n:] in place of names[:top_n]
SliceSuffix(names, top_n) ==
    SubSeq(names, IF Len(names) < top_n THEN 1 ELSE Len(names) - top_n + 1, Len(names))

\* names[:top_n]
SlicePrefix(names, top_n) == SubSeq(names, 1, IF Len(names) < top_n THEN Len(names) ELSE top_n)

TopN == 3

GetCastOf(names) == IF names.raised THEN Raise ELSE Return(SlicePrefix(names.v, TopN))

get_cast(x) == GetCastOf(parse_field(x))

\* the loop of get_crew_director: item.get('job').lower() raises
\* AttributeError when the job is truthy and no str
RECURSIVE CrewDirectors(_, _)
CrewDirectorsItem(items, item, job, directors) ==
    IF item.t = "dict" /\ Truthy(job)
    THEN IF job.t # "str" THEN Raise
         ELSE IF StrLower(job.s) = DirectorRole
              THEN CrewDirectors(Tail(items), Append(directors, DictGet(item, KeyName)))
         ELSE CrewDirectors(Tail(items), directors)
    ELSE CrewDirectors(Tail(items), directors)

CrewDirectors(items, directors) ==
    IF items = <<>> THEN Return(directors)
    ELSE CrewDirectorsItem(items, Head(items), DictGet(Head(items), KeyJob), directors)

CrewDirectorOf(data) ==
    IF ~data.ok THEN Return(<<>>)
    ELSE IF data.v.t = "list" THEN CrewDirectors(data.v.items, <<>>)
    ELSE Return(<<>>)

get_crew_director(x) == IF IsNa(x) THEN Return(<<>>) ELSE CrewDirectorOf(DecodeWithFallback(x))

\* t.replace(' ', '') without .lower()
CleanTokenKeepCase(s) == StrRemove(s, SP)

\* t.replace(' ', '').lower()
CleanToken(s) == StrLower(StrRemove(s, SP))

RECURSIVE clean_token_list(_)
clean_token_list(lst) ==
    IF lst = <<>> THEN <<>>
    ELSE IF Head(lst).t = "str"
         THEN <<PyStr(CleanToken(Head(lst).s))>> \o clean_token_list(Tail(lst))
    ELSE clean_token_list(Tail(lst))

(***************************************************************************)
(* CountVectorizer(max_features=5000, stop_words='english').fit_transform  *)
(* and cosine_similarity, as main uses them.  A feature vector is a        *)
(* function from the vocabulary's terms to counts (a term stands for its   *)
(* column).  StopWords lists the English stop words the model's texts use. *)
(***************************************************************************)
MaxFeatures == 5000

StopWords == {<<"t","h","e">>, <<"a","n","d">>, <<"o","f">>}

WordChars == Letters \cup DigitSet

\* the first position >= i of s that holds a word character, Len(s)+1 if none
WordStart(s, i) ==
    IF \E j \in i..Len(s) : s[j] \in WordChars
    THEN CHOOSE j \in i..Len(s) : s[j] \in WordChars /\ \A m \in i..(j - 1) : s[m] \notin WordChars
    ELSE Len(s) + 1

\* the maximal runs of word characters of s from position i on
RECURSIVE WordRuns(_, _)
WordRunsFrom(s, b) ==
    IF b > Len(s) THEN <<>>
    ELSE <<SubSeq(s, b, RunEnd(s, b, WordChars) - 1)>> \o WordRuns(s, RunEnd(s, b, WordChars))

WordRuns(s, i) == WordRunsFrom(s, WordStart(s, i))

RECURSIVE DropShortAndStop(_)
DropShortAndStop(words) ==
    IF words = <<>> THEN <<>>
    ELSE IF Len(Head(words)) < 2 \/ Head(words) \in StopWords
         THEN DropShortAndStop(Tail(words))
    ELSE <<Head(words)>> \o DropShortAndStop(Tail(words))

\* the analyzer: lowercase, tokens of two or more word characters, stop
\* words removed
Analyze(doc) == DropShortAndStop(WordRuns(StrLower(doc), 1))

TermCount(term, words) == Cardinality({i \in DOMAIN words : words[i] = term})

RECURSIVE CorpusCount(_, _)
CorpusCount(term, docs) ==
    IF docs = <<>> THEN 0
    ELSE TermCount(term, Analyze(Head(docs))) + CorpusCount(term, Tail(docs))

\* the terms kept: all of them, or the max_features most frequent
LimitFeatures(docs, all) ==
    IF Cardinality(all) <= MaxFeatures THEN all
    ELSE CHOOSE V \in SUBSET all :
             /\ Cardinality(V) = MaxFeatures
             /\ \A a \in V, b \in all \ V : CorpusCount(a, docs) >= CorpusCount(b, docs)

Vocabulary(docs) == LimitFeatures(docs, UNION {Range(Analyze(docs[i])) : i \in DOMAIN docs})

\* the count matrix over the vocabulary; an empty vocabulary raises ValueError
CountMatrix(docs, vocab) ==
    IF vocab = {} THEN Raise
    ELSE Return([i \in DOMAIN docs |->
                    [term \in vocab |-> TermCount(term, Analyze(docs[i]))]])

fit_transform(docs) == CountMatrix(docs, Vocabulary(docs))

RECURSIVE SumOver(_, _)
SumOver(f, S) ==
    IF S = {} THEN 0
    ELSE LET x == CHOOSE y \in S : TRUE IN f[x] + SumOver(f, S \ {x})

Dot(u, v) == SumOver([term \in DOMAIN u |-> u[term] * v[term]], DOMAIN u)

\* a zero norm is replaced by 1, so a zero row stays zero
NormSqOrOne(u) == IF Dot(u, u) = 0 THEN 1 ELSE Dot(u, u)

\* the dot product divided by the first row's squared norm
CosineEntryLeftNorm(u, v) == [num |-> Dot(u, v), den2 |-> NormSqOrOne(u) * NormSqOrOne(u)]

\* the entry for rows u and v: the number num / sqrt(den2), kept exact
CosineEntry(u, v) == [num |-> Dot(u, v), den2 |-> NormSqOrOne(u) * NormSqOrOne(v)]

cosine_similarity(X) == [i \in DOMAIN X |-> [j \in DOMAIN X |-> CosineEntry(X[i], X[j])]]

(***************************************************************************)
(* main                                                                    *)
(***************************************************************************)
VARIABLES pc, moviesCsv, creditsCsv, movies, credits, merged, vectors,
          similarity, stdout, modelDir, movieListPkl, similarityPkl,
          fn, arg, ret

vars == <<pc, moviesCsv, creditsCsv, movies, credits, merged, vectors,
          similarity, stdout, modelDir, movieListPkl, similarityPkl,
          fn, arg, ret>>

mainVars == <<pc, moviesCsv, creditsCsv, movies, credits, merged, vectors,
              similarity, stdout, modelDir, movieListPkl, similarityPkl>>

NoFile == [exists |-> FALSE, data |-> <<>>]
File(data) == [exists |-> TRUE, data |-> data]

MsgNotFound == [text |-> "Required CSV files not found", names |-> {"Movies 500.csv", "Credits 500.csv"}]
MsgBuilt == [text |-> "Built model files", names |-> {"model/movie_list.pkl", "model/similarity.pkl"}]

\* movies.merge(credits[['id', 'cast', 'crew']], on='id', how='left'): the
\* credits rows of one movie row, in the order of credits
RECURSIVE MatchRows(_, _)
MatchRows(row, right) ==
    IF right = <<>> THEN <<>>
    ELSE IF Head(right).id = row.id
         THEN <<row @@ [cast |-> Head(right).cast, crew |-> Head(right).crew]>>
              \o MatchRows(row, Tail(right))
    ELSE MatchRows(row, Tail(right))

\* a row without a match keeps its place, with NaN in the new columns
RowsFor(row, matches) ==
    IF matches = <<>> THEN <<row @@ [cast |-> PyNaN, crew |-> PyNaN]>> ELSE matches

RECURSIVE LeftMerge(_, _)
LeftMerge(left, right) ==
    IF left = <<>> THEN <<>>
    ELSE RowsFor(Head(left), MatchRows(Head(left), right)) \o LeftMerge(Tail(left), right)

\* [str(p) for p in parts if p]
RECURSIVE TruthyStrs(_)
TruthyStrs(parts) ==
    IF parts = <<>> THEN <<>>
    ELSE IF Truthy(Head(parts)) THEN <<PyStrOf(Head(parts))>> \o TruthyStrs(Tail(parts))
    ELSE TruthyStrs(Tail(parts))

\* x or [] for a list column
OrEmptyList(lst) == IF lst = <<>> THEN <<>> ELSE lst

TagParts(row) ==
    LET overview == PyOr(row.overview, PyStr(<<>>))
        genres == clean_token_list(OrEmptyList(row.genres_parsed))
        keywords == clean_token_list(OrEmptyList(row.keywords_parsed))
        cast == clean_token_list(OrEmptyList(row.cast_parsed))
        director == clean_token_list(OrEmptyList(row.director_parsed))
    IN  <<overview>> \o genres \o keywords \o cast \o director

make_tags(row) == StrJoin(<<SP>>, TruthyStrs(TagParts(row)))

\* the guard of line 64 written with `or` in place of `and`
CheckInputsEitherExists ==
    /\ pc = "start"
    /\ IF ~(moviesCsv.exists \/ creditsCsv.exists)
       THEN /\ stdout' = Append(stdout, MsgNotFound)
            /\ pc' = "returned"
       ELSE /\ stdout' = stdout
            /\ pc' = "read_csv"
    /\ UNCHANGED <<moviesCsv, creditsCsv, movies, credits, merged, vectors,
                   similarity, modelDir, movieListPkl, similarityPkl, fn, arg, ret>>

\* lines 64-66: the early return when an input file is missing
CheckInputs ==
    /\ pc = "start"
    /\ IF ~(moviesCsv.exists /\ creditsCsv.exists)
       THEN /\ stdout' = Append(stdout, MsgNotFound)
            /\ pc' = "returned"
       ELSE /\ stdout' = stdout
            /\ pc' = "read_csv"
    /\ UNCHANGED <<moviesCsv, creditsCsv, movies, credits, merged, vectors,
                   similarity, modelDir, movieListPkl, similarityPkl, fn, arg, ret>>

\* lines 68-69: pd.read_csv raises FileNotFoundError on a missing file
ReadCsv ==
    /\ pc = "read_csv"
    /\ IF moviesCsv.exists /\ creditsCsv.exists
       THEN /\ movies' = moviesCsv.data
            /\ credits' = creditsCsv.data
            /\ pc' = "parse_movies"
       ELSE /\ movies' = movies
            /\ credits' = credits
            /\ pc' = "raised"
    /\ UNCHANGED <<moviesCsv, creditsCsv, merged, vectors, similarity, stdout,
                   modelDir, movieListPkl, similarityPkl, fn, arg, ret>>

\* the columns lines 72-76 add, given the results of the two apply calls; an
\* exception in a call leaves main
SetMovieColumns(g, k) ==
    IF \E i \in DOMAIN movies : g[i].raised \/ k[i].raised
    THEN /\ pc' = "raised"
         /\ movies' = movies
    ELSE /\ pc' = "merge"
         /\ movies' = [i \in DOMAIN movies |->
                         movies[i] @@ [movie_id |-> movies[i].id,
                                       genres_parsed |-> g[i].v,
                                       keywords_parsed |-> k[i].v]]

\* lines 72-76
ParseMovies ==
    /\ pc = "parse_movies"
    /\ SetMovieColumns([i \in DOMAIN movies |-> parse_field(movies[i].genres)],
                       [i \in DOMAIN movies |-> parse_field(movies[i].keywords)])
    /\ UNCHANGED <<moviesCsv, creditsCsv, credits, merged, vectors, similarity, stdout,
                   modelDir, movieListPkl, similarityPkl, fn, arg, ret>>

\* lines 79-80
Merge ==
    /\ pc = "merge"
    /\ credits' = [i \in DOMAIN credits |->
                     [id |-> credits[i].movie_id, cast |-> credits[i].cast, crew |-> credits[i].crew]]
    /\ merged' = LeftMerge(movies, credits')
    /\ pc' = "parse_credits"
    /\ UNCHANGED <<moviesCsv, creditsCsv, movies, vectors, similarity, stdout,
                   modelDir, movieListPkl, similarityPkl, fn, arg, ret>>

\* the columns lines 82-83 add, given the results of the two apply calls
SetCreditsColumns(c, d) ==
    IF \E i \in DOMAIN merged : c[i].raised \/ d[i].raised
    THEN /\ pc' = "raised"
         /\ merged' = merged
    ELSE /\ pc' = "make_tags"
         /\ merged' = [i \in DOMAIN merged |->
                         merged[i] @@ [cast_parsed |-> c[i].v, director_parsed |-> d[i].v]]

\* lines 82-83
ParseCredits ==
    /\ pc = "parse_credits"
    /\ SetCreditsColumns([i \in DOMAIN merged |-> get_cast(merged[i].cast)],
                         [i \in DOMAIN merged |-> get_crew_director(merged[i].crew)])
    /\ UNCHANGED <<moviesCsv, creditsCsv, movies, credits, vectors, similarity, stdout,
                   modelDir, movieListPkl, similarityPkl, fn, arg, ret>>

\* lines 86-95
MakeTags ==
    /\ pc = "make_tags"
    /\ merged' = [i \in DOMAIN merged |-> merged[i] @@ [tags |-> make_tags(merged[i])]]
    /\ pc' = "vectorize"
    /\ UNCHANGED <<moviesCsv, creditsCsv, movies, credits, vectors, similarity, stdout,
                   modelDir, movieListPkl, similarityPkl, fn, arg, ret>>

SetVectors(r) ==
    IF r.raised
    THEN /\ pc' = "raised"
         /\ vectors' = vectors
    ELSE /\ pc' = "similarity"
         /\ vectors' = r.v

\* lines 98-99
Vectorize ==
    /\ pc = "vectorize"
    /\ SetVectors(fit_transform([i \in DOMAIN merged |-> merged[i].tags]))
    /\ UNCHANGED <<moviesCsv, creditsCsv, movies, credits, merged, similarity, stdout,
                   modelDir, movieListPkl, similarityPkl, fn, arg, ret>>

\* line 102
Similarity ==
    /\ pc = "similarity"
    /\ similarity' = cosine_similarity(vectors)
    /\ pc' = "makedirs"
    /\ UNCHANGED <<moviesCsv, creditsCsv, movies, credits, merged, vectors, stdout,
                   modelDir, movieListPkl, similarityPkl, fn, arg, ret>>

\* line 105
MakeDirs ==
    /\ pc = "makedirs"
    /\ modelDir' = TRUE
    /\ pc' = "dump_movies"
    /\ UNCHANGED <<moviesCsv, creditsCsv, movies, credits, merged, vectors, similarity,
                   stdout, movieListPkl, similarityPkl, fn, arg, ret>>

\* the table sorted by movie_id before it is saved (ids fall with the
\* row position, so the rows are reversed)
OutMoviesSorted(df) == [i \in DOMAIN df |-> df[Len(df) + 1 - i]]

\* out_movies = merged.copy()
OutMovies(df) == df

\* lines 108-111
DumpMovies ==
    /\ pc = "dump_movies"
    /\ movieListPkl' = File(OutMovies(merged))
    /\ pc' = "dump_similarity"
    /\ UNCHANGED <<moviesCsv, creditsCsv, movies, credits, merged, vectors, similarity,
                   stdout, modelDir, similarityPkl, fn, arg, ret>>

\* lines 113-116
DumpSimilarity ==
    /\ pc = "dump_similarity"
    /\ similarityPkl' = File(similarity)
    /\ stdout' = Append(stdout, MsgBuilt)
    /\ pc' = "returned"
    /\ UNCHANGED <<moviesCsv, creditsCsv, movies, credits, merged, vectors, similarity,
                   modelDir, movieListPkl, fn, arg, ret>>

(***************************************************************************)
(* Inputs.  A CSV cell is NaN (empty) or the text of the cell; the list    *)
(* columns hold the repr of a list of records, as written (single quotes), *)
(* as JSON (double quotes), with the quotes doubled by a CSV writer, or    *)
(* damaged.                                                                *)
(***************************************************************************)
MaxMovies == 2
MaxCredits == 2
MaxRecs == 2
MaxCast == 4
MaxTokens == 3

TxtAlPo == <<"A","l",SP,"P","o">>
TxtBoDi == <<"B","o",SP,"D","i">>
TxtCy == <<"C","y">>
TxtDi == <<"D","i">>
TxtEdWu == <<"E","d",SP,"W","u">>
TxtFy == <<"F","y">>
TxtGu == <<"G","u">>
TxtUp == <<"U","p">>
TxtAction == <<"A","c","t","i","o","n">>
TxtSciFi == <<"S","c","i",SP,"F","i">>
TxtSpaceWar == <<"s","p","a","c","e",SP,"w","a","r">>
TxtDirector == <<"D","i","r","e","c","t","o","r">>
TxtDIRECTOR == <<"D","I","R","E","C","T","O","R">>
TxtWriter == <<"W","r","i","t","e","r">>
TxtHeroWins == <<"T","h","e",SP,"h","e","r","o",SP,"w","i","n","s">>
TxtThe == <<"T","h","e">>
TxtTabbed == <<"J","o",TAB,"K","u">>

Rec1(k, v) == PyDict(<<PyPair(PyStr(k), v)>>)
Rec2(k1, v1, k2, v2) == PyDict(<<PyPair(PyStr(k1), v1), PyPair(PyStr(k2), v2)>>)

\* the text of a cell holding x, and the same cell cut short
Cell(x, q, quote) == PyStr(ReprWith(x, q, quote))
CutShort(cell) == PyStr(SubSeq(cell.s, 1, Len(cell.s) - 1))

SeqsUpTo(S, n) == UNION {[1..k -> S] : k \in 0..n}

MovieId(i) == 100 - 10 * i
\* an id no row of the item table has
UnknownId == MovieId(0)

GenresCell == Cell(PyList(<<Rec2(<<"i","d">>, PyInt(1), KeyName, PyStr(TxtAction)),
                            Rec1(KeyName, PyStr(TxtSciFi))>>), SQ, 1)
KeywordsCell == Cell(PyList(<<Rec1(KeyName, PyStr(TxtSpaceWar))>>), DQ, 2)
CastCell == Cell(PyList(<<Rec1(KeyName, PyStr(TxtAlPo)), Rec1(KeyName, PyStr(TxtBoDi)),
                          Rec1(KeyName, PyStr(TxtCy)), Rec1(KeyName, PyStr(TxtDi))>>), DQ, 1)
CrewCell == Cell(PyList(<<Rec2(KeyJob, PyStr(TxtWriter), KeyName, PyStr(TxtFy)),
                          Rec2(KeyJob, PyStr(TxtDirector), KeyName, PyStr(TxtEdWu))>>), SQ, 1)
CrewCellNumericJob == Cell(PyList(<<Rec2(KeyJob, PyInt(1), KeyName, PyStr(TxtGu))>>), SQ, 1)

MoviePayloads ==
    { [overview |-> PyStr(TxtHeroWins), genres |-> GenresCell, keywords |-> KeywordsCell],
      [overview |-> PyNaN, genres |-> PyNaN, keywords |-> PyNaN],
      [overview |-> PyStr(TxtThe), genres |-> CutShort(GenresCell), keywords |-> PyNaN] }

MovieTables ==
    { [i \in DOMAIN ps |-> [id |-> MovieId(i)] @@ ps[i]] : ps \in SeqsUpTo(MoviePayloads, MaxMovies) \ {<<>>} }

CreditsRows ==
    { [movie_id |-> MovieId(1), cast |-> CastCell, crew |-> CrewCell],
      [movie_id |-> MovieId(1), cast |-> PyNaN, crew |-> PyNaN],
      [movie_id |-> MovieId(2), cast |-> CastCell, crew |-> CrewCell],
      [movie_id |-> MovieId(2), cast |-> CutShort(CastCell), crew |-> CrewCellNumericJob],
      [movie_id |-> UnknownId, cast |-> CastCell, crew |-> CrewCell] }

CreditsTables == SeqsUpTo(CreditsRows, MaxCredits)

\* the elements the decoders' input lists are drawn from
FieldItems ==
    { Rec1(KeyName, PyStr(TxtAlPo)),
      Rec1(KeyTitle, PyStr(TxtUp)),
      Rec2(KeyName, PyStr(<<>>), KeyTitle, PyStr(TxtUp)),
      Rec2(KeyJob, PyStr(TxtDirector), KeyName, PyStr(TxtEdWu)),
      Rec2(KeyJob, PyStr(TxtDIRECTOR), KeyName, PyStr(TxtTabbed)),
      Rec2(KeyJob, PyStr(TxtWriter), KeyName, PyStr(TxtFy)),
      Rec2(KeyJob, PyInt(1), KeyName, PyStr(TxtGu)),
      Rec1(KeyJob, PyStr(DirectorRole)),
      Rec1(KeyName, PyInt(7)),
      PyDict(<<>>),
      PyStr(TxtCy) }

CastItems == { Rec1(KeyName, PyStr(TxtAlPo)), Rec1(KeyName, PyStr(TxtBoDi)), Rec1(KeyTitle, PyStr(TxtUp)) }

FieldValues ==
    {PyList(items) : items \in SeqsUpTo(FieldItems, MaxRecs)}
    \cup {PyList(items) : items \in SeqsUpTo(CastItems, MaxCast)}
    \cup {Rec1(KeyName, PyStr(TxtAlPo)), PyStr(TxtAlPo), PyInt(7), PyNone}

FieldInputs ==
    {Cell(v, SQ, 1) : v \in FieldValues}
    \cup {Cell(v, DQ, 1) : v \in FieldValues}
    \cup {Cell(v, DQ, 2) : v \in FieldValues}
    \cup {Cell(v, DQ, 4) : v \in FieldValues}
    \cup {CutShort(Cell(v, SQ, 1)) : v \in FieldValues}
    \cup {PyStr(ReprItems(v.items, SQ, 1)) : v \in {w \in FieldValues : w.t = "list"}}
    \cup {PyNaN, PyNone, PyInt(7), PyStr(<<>>)}

TokenElems == {PyStr(TxtAlPo), PyStr(TxtTabbed), PyStr(TxtDIRECTOR), PyStr(<<SP>>), PyNone, PyInt(7)}

TokenInputs == SeqsUpTo(TokenElems, MaxTokens)

(***************************************************************************)
(* Spec: one run of main on any pair of input files.                       *)
(***************************************************************************)
Idle ==
    /\ fn = "idle"
    /\ arg = PyNone
    /\ ret = Return(<<>>)

Init ==
    /\ pc = "start"
    /\ moviesCsv \in {NoFile} \cup {File(tb) : tb \in MovieTables}
    /\ creditsCsv \in {NoFile} \cup {File(tb) : tb \in CreditsTables}
    /\ movies = <<>>
    /\ credits = <<>>
    /\ merged = <<>>
    /\ vectors = <<>>
    /\ similarity = <<>>
    /\ stdout = <<>>
    /\ modelDir = FALSE
    /\ movieListPkl = NoFile
    /\ similarityPkl = NoFile
    /\ Idle

Next ==
    \/ CheckInputs
    \/ ReadCsv
    \/ ParseMovies
    \/ Merge
    \/ ParseCredits
    \/ MakeTags
    \/ Vectorize
    \/ Similarity
    \/ MakeDirs
    \/ DumpMovies
    \/ DumpSimilarity

Spec == Init /\ [][Next]_vars

(***************************************************************************)
(* SpecFn: the decoders and the normaliser called on their own.            *)
(***************************************************************************)
CallParseField ==
    /\ fn = "idle"
    /\ \E x \in FieldInputs :
          /\ fn' = "parse_field"
          /\ arg' = x
          /\ ret' = parse_field(x)
    /\ UNCHANGED mainVars

CallGetCast ==
    /\ fn = "idle"
    /\ \E x \in FieldInputs :
          /\ fn' = "get_cast"
          /\ arg' = x
          /\ ret' = get_cast(x)
    /\ UNCHANGED mainVars

CallGetCrewDirector ==
    /\ fn = "idle"
    /\ \E x \in FieldInputs :
          /\ fn' = "get_crew_director"
          /\ arg' = x
          /\ ret' = get_crew_director(x)
    /\ UNCHANGED mainVars

CallCleanTokenList ==
    /\ fn = "idle"
    /\ \E lst \in TokenInputs :
          /\ fn' = "clean_token_list"
          /\ arg' = lst
          /\ ret' = Return(clean_token_list(lst))
    /\ UNCHANGED mainVars

InitFn ==
    /\ pc = "idle"
    /\ moviesCsv = NoFile
    /\ creditsCsv = NoFile
    /\ movies = <<>>
    /\ credits = <<>>
    /\ merged = <<>>
    /\ vectors = <<>>
    /\ similarity = <<>>
    /\ stdout = <<>>
    /\ modelDir = FALSE
    /\ movieListPkl = NoFile
    /\ similarityPkl = NoFile
    /\ Idle

NextFn ==
    \/ CallParseField
    \/ CallGetCast
    \/ CallGetCrewDirector
    \/ CallCleanTokenList

SpecFn == InitFn /\ [][NextFn]_vars

(***************************************************************************)
(* Properties                                                              *)
(***************************************************************************)
BothInputsExist == moviesCsv.exists /\ creditsCsv.exists
NoArtifacts == ~modelDir /\ ~movieListPkl.exists /\ ~similarityPkl.exists
NothingProcessed ==
    movies = <<>> /\ credits = <<>> /\ merged = <<>> /\ vectors = <<>> /\ similarity = <<>>

\* C1: when an input file is missing, main prints the diagnostic naming both
\* files and returns before any processing, with no artifact and no model
\* directory; artifacts exist only in runs where both inputs exist.
C1_MissingInputHalts ==
    /\ (pc # "start" /\ ~BothInputsExist) =>
          /\ pc = "returned"
          /\ Len(stdout) = 1
          /\ stdout[1].text = "Required CSV files not found"
          /\ stdout[1].names = {"Movies 500.csv", "Credits 500.csv"}
          /\ NothingProcessed
          /\ NoArtifacts
    /\ ~NoArtifacts => BothInputsExist

C1_Witness ==
    /\ pc = "returned"
    /\ moviesCsv.exists
    /\ ~creditsCsv.exists
    /\ stdout = <<MsgNotFound>>
    /\ NoArtifacts

HasKey(item, key) == \E i \in DOMAIN item.items : item.items[i].items[1] = PyStr(key)

\* both decodes of lines 14 and 18 fail
Undecodable(x) ==
    /\ ~LiteralEval(x).ok
    /\ x.t = "str" => ~LiteralEval(PyStr(CollapseDoubledQuotes(x.s))).ok

Nameless(item) == item.t # "dict" \/ (~HasKey(item, KeyName) /\ ~HasKey(item, KeyTitle))

\* C2: parse_field never raises; a null or undecodable value, a value that
\* decodes to a non-list, and a list whose elements are no mappings or lack
\* both 'name' and 'title' all give the empty list.
C2_ParseFieldTotal ==
    fn = "parse_field" =>
       /\ ~ret.raised
       /\ (IsNa(arg) \/ Undecodable(arg)) => ret.v = <<>>
       /\ (~IsNa(arg) /\ ~Undecodable(arg)) =>
             /\ DecodeWithFallback(arg).v.t # "list" => ret.v = <<>>
             /\ (/\ DecodeWithFallback(arg).v.t = "list"
                 /\ \A i \in DOMAIN DecodeWithFallback(arg).v.items :
                       Nameless(DecodeWithFallback(arg).v.items[i])) => ret.v = <<>>

C2_Witness ==
    /\ fn = "parse_field"
    /\ arg.t = "str"
    /\ CollapseDoubledQuotes(arg.s) # arg.s
    /\ Undecodable(arg)
    /\ ret = Return(<<>>)

IsDirectorRecord(item) ==
    /\ item.t = "dict"
    /\ DictGet(item, KeyJob).t = "str"
    /\ StrLower(DictGet(item, KeyJob).s) = DirectorRole

RECURSIVE DirectorNames(_)
DirectorNames(items) ==
    IF items = <<>> THEN <<>>
    ELSE IF IsDirectorRecord(Head(items)) /\ DictGet(Head(items), KeyName).t = "str"
         THEN <<DictGet(Head(items), KeyName)>> \o DirectorNames(Tail(items))
    ELSE DirectorNames(Tail(items))

\* C3: get_crew_director never raises and returns name strings: exactly the
\* names, in source order, of the records whose 'job' equals "director"
\* whatever its case; a null or undecodable value gives the empty list.
C3_DirectorExtractionTotal ==
    fn = "get_crew_director" =>
       /\ ~ret.raised
       /\ \A i \in DOMAIN ret.v : ret.v[i].t = "str"
       /\ (IsNa(arg) \/ Undecodable(arg)) => ret.v = <<>>
       /\ (~IsNa(arg) /\ ~Undecodable(arg) /\ DecodeWithFallback(arg).v.t = "list") =>
             ret.v = DirectorNames(DecodeWithFallback(arg).v.items)

HasTags(row) == "tags" \in DOMAIN row

TagsBuilt == merged # <<>> /\ HasTags(merged[1])

VectorsBuilt == vectors # <<>>

SimilarityBuilt == similarity # <<>>

IsZeroVector(u) == \A term \in DOMAIN u : u[term] = 0

AllFieldsAbsent(row) ==
    /\ IsNa(row.overview) \/ row.overview = PyStr(<<>>)
    /\ IsNa(row.genres)
    /\ IsNa(row.keywords)
    /\ IsNa(row.cast)
    /\ IsNa(row.crew)

\* C4: a row whose synopsis is absent or empty and whose genres, keywords,
\* cast and director are all absent gets the empty tag string and a zero
\* feature vector.
C4_AbsentFieldsGiveEmptyTags ==
    TagsBuilt =>
       \A i \in DOMAIN merged :
          AllFieldsAbsent(merged[i]) =>
             /\ merged[i].tags = <<>>
             /\ VectorsBuilt => IsZeroVector(vectors[i])

Texts(tokens) == [i \in DOMAIN tokens |-> tokens[i].s]

\* the text of the synopsis: nothing when the cell is empty
SynopsisText(row) == IF row.overview.t = "str" THEN row.overview.s ELSE <<>>

NormalizedTokens(names) == Texts(clean_token_list(names))

TagsInOrder(row) ==
    row.tags = StrJoin(<<SP>>, SeqFilterNonEmpty(
                   <<SynopsisText(row)>>
                   \o NormalizedTokens(row.genres_parsed)
                   \o NormalizedTokens(row.keywords_parsed)
                   \o NormalizedTokens(row.cast_parsed)
                   \o NormalizedTokens(row.director_parsed)))

\* C5: the tag string of every row is the single-space join of the synopsis,
\* the normalized genre tokens, the keyword tokens, the cast tokens and the
\* director tokens, in this order.
C5_TagOrder == TagsBuilt => \A i \in DOMAIN merged : TagsInOrder(merged[i])

\* the order of C5 on the rows whose synopsis is text
TagOrderOfTextSynopsis ==
    TagsBuilt => \A i \in DOMAIN merged : merged[i].overview.t = "str" => TagsInOrder(merged[i])

HasCreditsRow(id) == \E k \in DOMAIN creditsCsv.data : creditsCsv.data[k].movie_id = id

\* C6: main completes, the enriched table is the N item rows in their order,
\* an item with no contributor row has empty cast and director lists, and the
\* similarity matrix is N x N.
C6_EnrichedTableIsItemTable ==
    /\ pc # "raised"
    /\ merged # <<>> =>
          /\ Len(merged) = Len(moviesCsv.data)
          /\ \A i \in DOMAIN merged :
                /\ i \in DOMAIN moviesCsv.data
                /\ merged[i].id = moviesCsv.data[i].id
                /\ merged[i].overview = moviesCsv.data[i].overview
                /\ ("cast_parsed" \in DOMAIN merged[i] /\ ~HasCreditsRow(merged[i].id)) =>
                      merged[i].cast_parsed = <<>> /\ merged[i].director_parsed = <<>>
    /\ SimilarityBuilt =>
          /\ DOMAIN similarity = DOMAIN moviesCsv.data
          /\ \A i \in DOMAIN similarity : DOMAIN similarity[i] = DOMAIN moviesCsv.data

TagsOf(table) == [i \in DOMAIN table |-> table[i].tags]

\* C7: the two artifacts are aligned by position: the matrix is square with
\* one row per row of the saved table, it is the cosine similarity of the
\* vectorized tag strings of the saved rows taken by row position, and the
\* saved table is the table the tags, the vectors and the matrix were
\* computed from, in the same order.
C7_ArtifactsAligned ==
    /\ VectorsBuilt => DOMAIN vectors = DOMAIN merged
    /\ SimilarityBuilt => DOMAIN similarity = DOMAIN merged
    /\ movieListPkl.exists => TagsBuilt /\ movieListPkl.data = merged
    /\ similarityPkl.exists =>
          /\ movieListPkl.exists
          /\ DOMAIN similarityPkl.data = DOMAIN movieListPkl.data
          /\ \A i \in DOMAIN similarityPkl.data :
                DOMAIN similarityPkl.data[i] = DOMAIN movieListPkl.data
          /\ similarityPkl.data = cosine_similarity(fit_transform(TagsOf(movieListPkl.data)).v)

C7_Witness ==
    /\ pc = "returned"
    /\ similarityPkl.exists
    /\ Len(movieListPkl.data) > Len(moviesCsv.data)
    /\ \E i, j \in DOMAIN movieListPkl.data :
          /\ i < j
          /\ movieListPkl.data[i].tags # movieListPkl.data[j].tags
          /\ similarityPkl.data[i][i] # similarityPkl.data[i][j]

\* num / sqrt(den2) as a number: equality, and the bounds 0 and 1
SameNumber(a, b) == a.num * a.num * b.den2 = b.num * b.num * a.den2
IsZero(a) == a.num = 0 /\ a.den2 > 0
IsOne(a) == a.num > 0 /\ a.num * a.num = a.den2
InUnitInterval(a) == a.num >= 0 /\ a.den2 > 0 /\ a.num * a.num <= a.den2

\* C8: the similarity matrix is square and symmetric with entries in [0,1];
\* the diagonal is 1 for a non-zero feature vector and 0 for a zero one, and
\* a pair with a zero vector has similarity 0.
C8_SimilarityMatrix ==
    SimilarityBuilt =>
       \A i \in DOMAIN similarity :
          /\ DOMAIN similarity[i] = DOMAIN similarity
          /\ IF IsZeroVector(vectors[i]) THEN IsZero(similarity[i][i]) ELSE IsOne(similarity[i][i])
          /\ \A j \in DOMAIN similarity :
                /\ SameNumber(similarity[i][j], similarity[j][i])
                /\ InUnitInterval(similarity[i][j])
                /\ (IsZeroVector(vectors[i]) \/ IsZeroVector(vectors[j])) => IsZero(similarity[i][j])

C8_Witness ==
    /\ SimilarityBuilt
    /\ \E i, j, k \in DOMAIN similarity :
          /\ IsZeroVector(vectors[i])
          /\ ~IsZeroVector(vectors[j])
          /\ ~IsZeroVector(vectors[k])
          /\ similarity[j][k].num > 0
          /\ ~IsOne(similarity[j][k])
          /\ Dot(vectors[j], vectors[j]) # Dot(vectors[k], vectors[k])

NotSpace(c) == c # SP
IsStr(x) == x.t = "str"
HasNoUpperCase(s) == \A i \in DOMAIN s : s[i] \notin Range(UpperCase)

\* the tokens and their elements correspond one to one, in order, each token
\* free of the characters of blanks and of upper case
TokensFused(lst, tokens, blanks) ==
    /\ Len(tokens) = Len(SelectSeq(lst, IsStr))
    /\ \A i \in DOMAIN tokens :
          /\ tokens[i].t = "str"
          /\ \A k \in DOMAIN tokens[i].s : tokens[i].s[k] \notin blanks
          /\ HasNoUpperCase(tokens[i].s)
          /\ SelectSeq(tokens[i].s, NotSpace)
                = SelectSeq(StrLower(SelectSeq(lst, IsStr)[i].s), NotSpace)

\* C9 as stated: clean_token_list returns one token per string element, in
\* order, lowercase and with no whitespace character of any kind.
C9_NoWhitespaceOfAnyKind ==
    fn = "clean_token_list" => TokensFused(arg, ret.v, {SP, TAB})

\* C9: clean_token_list returns one token per string element, in order, and
\* nothing for the other elements; every token is lowercase and holds no
\* space character (a tab is kept).
C9_NoSpaceCharacter ==
    fn = "clean_token_list" =>
       /\ ~ret.raised
       /\ TokensFused(arg, ret.v, {SP})
       /\ \A i \in DOMAIN ret.v :
             Len(ret.v[i].s) = Len(SelectSeq(SelectSeq(arg, IsStr)[i].s, NotSpace))

C9_Witness ==
    /\ fn = "clean_token_list"
    /\ \E i, j, k \in DOMAIN arg :
          /\ arg[i].t # "str"
          /\ arg[j] = PyStr(TxtAlPo)
          /\ arg[k] = PyStr(TxtTabbed)
    /\ Len(ret.v) = 2

\* C10: get_cast returns at most 3 names: the first min(3, n) of the n names
\* parse_field extracts from the same value, in their order.
C10_CastIsPrefix ==
    fn = "get_cast" =>
       /\ ~ret.raised
       /\ Len(ret.v) <= 3
       /\ Len(ret.v) = (IF Len(parse_field(arg).v) < 3 THEN Len(parse_field(arg).v) ELSE 3)
       /\ \A i \in DOMAIN ret.v : ret.v[i] = parse_field(arg).v[i]

C10_Witness ==
    /\ fn = "get_cast"
    /\ Len(parse_field(arg).v) > 3
    /\ Len(ret.v) = 3
    /\ ret.v[1] # ret.v[2]

=============================================================================
